---- MODULE Spec2Model ----
(***************************************************************************)
(* Deterministic field encryption of the SaaS Shield client                *)
(* (src/src/saas_shield/deterministic.rs): encrypt, decrypt,               *)
(* generate_query_field_values and rotate_fields, run against a tenant     *)
(* security proxy (TSP) whose key state changes between calls.             *)
(*                                                                         *)
(* The AES-SIV primitive is modelled symbolically: a ciphertext body       *)
(* records the key bytes, the associated data and the plaintext it was     *)
(* made from, and opens only under the same key bytes and associated data. *)
(* Derived key bytes are the tuple of what the TSP derives them from.      *)
(***************************************************************************)
EXTENDS Integers, Sequences, FiniteSets, TLC

(* ------------------------------ bounds --------------------------------- *)
MaxKeyId == 2
MaxSecrets == 3

Tenants == {"A", "B"}
Plaintexts == {<< >>, <<1, 2, 3>>}

\* Every tenant has secrets assigned under ConfiguredSecretPath; no tenant
\* has any under UnknownSecretPath, so the TSP response has no entry for it.
ConfiguredSecretPath == "bar"
UnknownSecretPath == "qux"
TheDerivationPath == "foo"
BarFoo == <<ConfiguredSecretPath, TheDerivationPath>>
QuxFoo == <<UnknownSecretPath, TheDerivationPath>>

(* ------------------------- key id header codec ------------------------- *)
HeaderLen == 6
Byte == 256

EdekTypeByte(edek_type) ==
    CASE edek_type = "SaasShield" -> 0
      [] edek_type = "Standalone" -> 128
      [] OTHER -> 255

PayloadTypeByte(payload_type) ==
    CASE payload_type = "DeterministicField" -> 0
      [] payload_type = "VectorMetadata" -> 1
      [] payload_type = "StandardEdek" -> 2
      [] OTHER -> 255

\* The headers the tests of the two engines expect for key id 1.
encrypt_document_core_works == <<0, 0, 0, 1, 2, 0>>
test_deterministic_encrypt_current == <<0, 0, 0, 1, 0, 0>>

\* Mutant: the deterministic client tags its fields as standard EDEKs.
get_payload_type_standard == "StandardEdek"

get_edek_type == "SaasShield"
get_payload_type == "DeterministicField"

KeyIdHeader(edek_type, payload_type, key_id) ==
    [key_id |-> key_id, edek_type |-> edek_type, payload_type |-> payload_type]

\* big-endian u32 key id, one byte carrying both type tags, one zero byte
write_to_bytes(h) ==
    << (h.key_id \div (Byte * Byte * Byte)) % Byte,
       (h.key_id \div (Byte * Byte)) % Byte,
       (h.key_id \div Byte) % Byte,
       h.key_id % Byte,
       EdekTypeByte(h.edek_type) + PayloadTypeByte(h.payload_type),
       0 >>

put_header_on_document(h, body) == write_to_bytes(h) \o body

create_key_id_header(key_id) ==
    KeyIdHeader(get_edek_type, get_payload_type, key_id)

NoHeader == [ok |-> FALSE, key_id |-> 0, ciphertext |-> << >>, err |-> "MalformedHeader"]

\* Strip the 6 header bytes; the remainder is the ciphertext.  Fails when
\* the value is shorter than a header or the tag bytes are not those of a
\* SaaS Shield deterministic field.
decompose_key_id_header(bytes) ==
    IF Len(bytes) < HeaderLen THEN NoHeader
    ELSE IF bytes[5] # EdekTypeByte(get_edek_type) + PayloadTypeByte(get_payload_type)
            \/ bytes[6] # 0
         THEN NoHeader
    ELSE [ok |-> TRUE,
          key_id |-> ((bytes[1] * Byte + bytes[2]) * Byte + bytes[3]) * Byte + bytes[4],
          ciphertext |-> SubSeq(bytes, HeaderLen + 1, Len(bytes)),
          err |-> ""]

(* --------------------- deterministic primitive ------------------------- *)
NoKeyBytes == <<"", "", "", 0>>
GarbageBody == [key |-> NoKeyBytes, ad |-> <<"", "">>, pt |-> << >>]

NoCalls == << >>
Call(fn, key) == [fn |-> fn, key |-> key]

NoField == [secret_path |-> "", derivation_path |-> "", encrypted_field |-> << >>]
NoPlain == [plaintext_field |-> << >>, secret_path |-> "", derivation_path |-> ""]

PlaintextField(pt, path) ==
    [plaintext_field |-> pt, secret_path |-> path[1], derivation_path |-> path[2]]
EncryptedField(bytes, path) ==
    [secret_path |-> path[1], derivation_path |-> path[2], encrypted_field |-> bytes]

Ok(val, calls) == [ok |-> TRUE, val |-> val, err |-> "", calls |-> calls]
Err(dummy, err, calls) == [ok |-> FALSE, val |-> dummy, err |-> err, calls |-> calls]

encrypt_internal(key, key_id_header, plaintext_field) ==
    LET body == [key |-> key,
                 ad |-> <<plaintext_field.secret_path, plaintext_field.derivation_path>>,
                 pt |-> plaintext_field.plaintext_field]
    IN  Ok([secret_path |-> plaintext_field.secret_path,
            derivation_path |-> plaintext_field.derivation_path,
            encrypted_field |-> put_header_on_document(key_id_header, <<body>>)],
           <<Call("encrypt_internal", key)>>)

decrypt_internal(key, ciphertext, secret_path, derivation_path) ==
    IF Len(ciphertext) = 1
       /\ ciphertext[1].key = key
       /\ ciphertext[1].ad = <<secret_path, derivation_path>>
    THEN Ok([plaintext_field |-> ciphertext[1].pt,
             secret_path |-> secret_path,
             derivation_path |-> derivation_path],
            <<Call("decrypt_internal", key)>>)
    ELSE Err(NoPlain, "DecryptError", <<Call("decrypt_internal", key)>>)

(* ------------------------------- TSP ----------------------------------- *)
\* A tenant's secrets for ConfiguredSecretPath, in the order the TSP lists
\* them: distinct ids, at most one of them current.
Secret(id, current) == [id |-> id, current |-> current]

\* up = FALSE: the TSP does not know the tenant and its call fails.
Known(keys) == [up |-> TRUE, keys |-> keys]
Unknown == [up |-> FALSE, keys |-> << >>]

DeriveBytes(tenant, path, id) == <<tenant, path[1], path[2], id>>

DerivedKey(tenant, path, secret) ==
    [derived_key |-> DeriveBytes(tenant, path, secret.id),
     tenant_secret_id |-> secret.id,
     current |-> secret.current]

NoDerivedKey == [derived_key |-> NoKeyBytes, tenant_secret_id |-> 0, current |-> FALSE]

\* KeyDeriveResponse: derived_keys maps each requested path the tenant has
\* secrets for to its ordered list of derived keys.
tenant_key_derive(tspS, tenant, paths) ==
    IF ~tspS[tenant].up
    THEN [ok |-> FALSE, err |-> "TspError", derived_keys |-> << >>]
    ELSE [ok |-> TRUE, err |-> "",
          derived_keys |->
              [p \in {q \in paths : q[1] = ConfiguredSecretPath} |->
                  [i \in 1..Len(tspS[tenant].keys) |->
                      DerivedKey(tenant, p, tspS[tenant].keys[i])]]]

(* ------------------------------ state ---------------------------------- *)
VARIABLES
    tsp,    \* per tenant: whether the TSP knows it, and its secrets in order
    db,     \* the field the application has stored, and how it came to be
    last    \* the call in progress: its inputs and what it returns

vars == <<tsp, db, last>>

(* ---------------------------- key resolver ----------------------------- *)
Current == [kind |-> "Current", id |-> 0]
Specific(key_id) == [kind |-> "Specific", id |-> key_id]

KeysForPath(derived_keys, secret_path, derivation_path) ==
    IF <<secret_path, derivation_path>> \in DOMAIN derived_keys
    THEN derived_keys[<<secret_path, derivation_path>>]
    ELSE << >>

\* find: index of the first current key of the list, 0 when there is none.
FirstCurrent(keys) ==
    IF \E i \in 1..Len(keys) : keys[i].current
    THEN CHOOSE i \in 1..Len(keys) :
             keys[i].current /\ \A j \in 1..(i - 1) : ~keys[j].current
    ELSE 0

\* find: index of the first key of the list with this id, 0 when there is none.
FirstWithId(keys, key_id) ==
    IF \E i \in 1..Len(keys) : keys[i].tenant_secret_id = key_id
    THEN CHOOSE i \in 1..Len(keys) :
             /\ keys[i].tenant_secret_id = key_id
             /\ \A j \in 1..(i - 1) : keys[j].tenant_secret_id # key_id
    ELSE 0

get_current(resp, secret_path, derivation_path) ==
    LET keys == KeysForPath(resp.derived_keys, secret_path, derivation_path)
        i == FirstCurrent(keys)
    IN  IF i = 0 THEN [some |-> FALSE, key |-> NoDerivedKey]
        ELSE [some |-> TRUE, key |-> keys[i]]

get_key_for_path(resp, secret_path, derivation_path, choice) ==
    LET keys == KeysForPath(resp.derived_keys, secret_path, derivation_path)
        cur == get_current(resp, secret_path, derivation_path)
        i == FirstWithId(keys, choice.id)
    IN  IF choice.kind = "Current"
        THEN IF cur.some THEN [ok |-> TRUE, key |-> cur.key, err |-> ""]
             ELSE [ok |-> FALSE, key |-> NoDerivedKey, err |-> "NoCurrentKey"]
        ELSE IF i # 0 THEN [ok |-> TRUE, key |-> keys[i], err |-> ""]
             ELSE [ok |-> FALSE, key |-> NoDerivedKey, err |-> "KeyNotFound"]

(* --------------------------- encrypt, decrypt -------------------------- *)
Metadata(tenant) == [tenant_id |-> tenant]

encrypt(tspS, plaintext_field, metadata) ==
    LET paths == {<<plaintext_field.secret_path, plaintext_field.derivation_path>>}
        derived_keys == tenant_key_derive(tspS, metadata.tenant_id, paths)
        derived_key == get_key_for_path(derived_keys,
                                        plaintext_field.secret_path,
                                        plaintext_field.derivation_path,
                                        Current)
    IN  IF ~derived_keys.ok THEN Err(NoField, derived_keys.err, NoCalls)
        ELSE IF ~derived_key.ok THEN Err(NoField, derived_key.err, NoCalls)
        ELSE encrypt_internal(derived_key.key.derived_key,
                              create_key_id_header(derived_key.key.tenant_secret_id),
                              plaintext_field)

\* Mutant: the guard is dropped.
decrypt_with_key_unguarded(derived_key, key_id, ciphertext, encrypted_field) ==
    decrypt_internal(derived_key.derived_key,
                     ciphertext,
                     encrypted_field.secret_path,
                     encrypted_field.derivation_path)

\* Mutant: the guard's comparison is inverted.
decrypt_with_key_inverted(derived_key, key_id, ciphertext, encrypted_field) ==
    IF derived_key.tenant_secret_id = key_id
    THEN Err(NoPlain, "InvalidKey", NoCalls)
    ELSE decrypt_internal(derived_key.derived_key,
                          ciphertext,
                          encrypted_field.secret_path,
                          encrypted_field.derivation_path)

\* Lines 106-118: the guard on the resolved key, then the primitive.
decrypt_with_key(derived_key, key_id, ciphertext, encrypted_field) ==
    IF derived_key.tenant_secret_id # key_id
    THEN Err(NoPlain, "InvalidKey", NoCalls)
    ELSE decrypt_internal(derived_key.derived_key,
                          ciphertext,
                          encrypted_field.secret_path,
                          encrypted_field.derivation_path)

\* Mutant: the key is chosen by the current flag, not by the header's id.
decrypt_by_current(tspS, encrypted_field, metadata) ==
    LET header == decompose_key_id_header(encrypted_field.encrypted_field)
        paths == {<<encrypted_field.secret_path, encrypted_field.derivation_path>>}
        derived_keys == tenant_key_derive(tspS, metadata.tenant_id, paths)
        derived_key == get_key_for_path(derived_keys,
                                        encrypted_field.secret_path,
                                        encrypted_field.derivation_path,
                                        Current)
    IN  IF ~header.ok THEN Err(NoPlain, header.err, NoCalls)
        ELSE IF ~derived_keys.ok THEN Err(NoPlain, derived_keys.err, NoCalls)
        ELSE IF ~derived_key.ok THEN Err(NoPlain, derived_key.err, NoCalls)
        ELSE decrypt_internal(derived_key.key.derived_key,
                              header.ciphertext,
                              encrypted_field.secret_path,
                              encrypted_field.derivation_path)

\* Mutant: the whole value, header included, is handed to the primitive.
decrypt_whole_value(tspS, encrypted_field, metadata) ==
    LET header == decompose_key_id_header(encrypted_field.encrypted_field)
        paths == {<<encrypted_field.secret_path, encrypted_field.derivation_path>>}
        derived_keys == tenant_key_derive(tspS, metadata.tenant_id, paths)
        derived_key == get_key_for_path(derived_keys,
                                        encrypted_field.secret_path,
                                        encrypted_field.derivation_path,
                                        Specific(header.key_id))
    IN  IF ~header.ok THEN Err(NoPlain, header.err, NoCalls)
        ELSE IF ~derived_keys.ok THEN Err(NoPlain, derived_keys.err, NoCalls)
        ELSE IF ~derived_key.ok THEN Err(NoPlain, derived_key.err, NoCalls)
        ELSE decrypt_with_key(derived_key.key, header.key_id,
                              encrypted_field.encrypted_field, encrypted_field)

decrypt(tspS, encrypted_field, metadata) ==
    LET header == decompose_key_id_header(encrypted_field.encrypted_field)
        paths == {<<encrypted_field.secret_path, encrypted_field.derivation_path>>}
        derived_keys == tenant_key_derive(tspS, metadata.tenant_id, paths)
        derived_key == get_key_for_path(derived_keys,
                                        encrypted_field.secret_path,
                                        encrypted_field.derivation_path,
                                        Specific(header.key_id))
    IN  IF ~header.ok THEN Err(NoPlain, header.err, NoCalls)
        ELSE IF ~derived_keys.ok THEN Err(NoPlain, derived_keys.err, NoCalls)
        ELSE IF ~derived_key.ok THEN Err(NoPlain, derived_key.err, NoCalls)
        ELSE decrypt_with_key(derived_key.key, header.key_id,
                              header.ciphertext, encrypted_field)

(* --------------------- generate_query_field_values --------------------- *)
PathsOf(fields) ==
    {<<fields[f].secret_path, fields[f].derivation_path>> : f \in DOMAIN fields}

derive_keys_many_paths(tspS, metadata, paths) ==
    tenant_key_derive(tspS, metadata.tenant_id, paths)

\* Lines 149-159: one encryption per derived key of the path, in list order.
\* Mutant: every element carries the header of the first key of the list.
encrypt_with_each_first_header(keys, plaintext_field) ==
    [i \in 1..Len(keys) |->
        encrypt_internal(keys[i].derived_key,
                         create_key_id_header(keys[1].tenant_secret_id),
                         plaintext_field).val]

\* Mutant: the list is built in the reverse of the response order.
encrypt_with_each_reversed(keys, plaintext_field) ==
    [i \in 1..Len(keys) |->
        encrypt_internal(keys[Len(keys) + 1 - i].derived_key,
                         create_key_id_header(keys[Len(keys) + 1 - i].tenant_secret_id),
                         plaintext_field).val]

encrypt_with_each(keys, plaintext_field) ==
    [i \in 1..Len(keys) |->
        encrypt_internal(keys[i].derived_key,
                         create_key_id_header(keys[i].tenant_secret_id),
                         plaintext_field).val]

NoQuery == << >>

\* Mutant: a field whose path has no key list is left out of the mapping.
generate_query_skipping(tspS, fields_to_query, metadata) ==
    LET all_keys == derive_keys_many_paths(tspS, metadata, PathsOf(fields_to_query))
        HasKeys(f) == <<fields_to_query[f].secret_path,
                        fields_to_query[f].derivation_path>>
                          \in DOMAIN all_keys.derived_keys
    IN  IF ~all_keys.ok THEN Err(NoQuery, all_keys.err, NoCalls)
        ELSE Ok([f \in {g \in DOMAIN fields_to_query : HasKeys(g)} |->
                    encrypt_with_each(
                        all_keys.derived_keys[<<fields_to_query[f].secret_path,
                                                fields_to_query[f].derivation_path>>],
                        fields_to_query[f])],
                NoCalls)

generate_query_field_values(tspS, fields_to_query, metadata) ==
    LET all_keys == derive_keys_many_paths(tspS, metadata, PathsOf(fields_to_query))
        HasKeys(f) == <<fields_to_query[f].secret_path,
                        fields_to_query[f].derivation_path>>
                          \in DOMAIN all_keys.derived_keys
    IN  IF ~all_keys.ok THEN Err(NoQuery, all_keys.err, NoCalls)
        ELSE IF \E f \in DOMAIN fields_to_query : ~HasKeys(f)
        THEN Err(NoQuery, "RequestError", NoCalls)
        ELSE Ok([f \in DOMAIN fields_to_query |->
                    encrypt_with_each(
                        all_keys.derived_keys[<<fields_to_query[f].secret_path,
                                                fields_to_query[f].derivation_path>>],
                        fields_to_query[f])],
                NoCalls)

(* ---------------------------- rotate_fields ---------------------------- *)
NoTenant == [some |-> FALSE, v |-> ""]
SomeTenant(t) == [some |-> TRUE, v |-> t]

get_keys_for_rotation(tspS, metadata, parsed_new_tenant_id, paths) ==
    LET original_keys == derive_keys_many_paths(tspS, metadata, paths)
        new_keys == IF parsed_new_tenant_id = metadata.tenant_id
                    THEN original_keys
                    ELSE derive_keys_many_paths(tspS, Metadata(parsed_new_tenant_id), paths)
    IN  IF ~original_keys.ok
        THEN [ok |-> FALSE, err |-> original_keys.err,
              original_keys |-> original_keys, new_keys |-> original_keys]
        ELSE IF ~new_keys.ok
        THEN [ok |-> FALSE, err |-> new_keys.err,
              original_keys |-> original_keys, new_keys |-> original_keys]
        ELSE [ok |-> TRUE, err |-> "",
              original_keys |-> original_keys, new_keys |-> new_keys]

check_rotation_no_op(original_key_id, maybe_current_key_id, parsed_new_tenant_id, metadata) ==
    /\ maybe_current_key_id.some
    /\ maybe_current_key_id.v = original_key_id
    /\ parsed_new_tenant_id = metadata.tenant_id

\* Mutant: the new header is put on bytes made with the original key.
reencrypt_with_original_key(original_key, new_tenant_keys, ciphertext, encrypted_field) ==
    LET decrypted_field == decrypt_internal(original_key.derived_key,
                                            ciphertext,
                                            encrypted_field.secret_path,
                                            encrypted_field.derivation_path)
        new_current_key == get_key_for_path(new_tenant_keys,
                                            encrypted_field.secret_path,
                                            encrypted_field.derivation_path,
                                            Current)
        encrypted == encrypt_internal(original_key.derived_key,
                                      create_key_id_header(
                                          new_current_key.key.tenant_secret_id),
                                      decrypted_field.val)
    IN  IF ~decrypted_field.ok THEN Err(NoField, decrypted_field.err, decrypted_field.calls)
        ELSE IF ~new_current_key.ok
        THEN Err(NoField, new_current_key.err, decrypted_field.calls)
        ELSE [encrypted EXCEPT !.calls = decrypted_field.calls \o encrypted.calls]

\* Mutant: the re-encrypted field keeps the header of the original key.
reencrypt_with_stale_header(original_key, new_tenant_keys, ciphertext, encrypted_field) ==
    LET decrypted_field == decrypt_internal(original_key.derived_key,
                                            ciphertext,
                                            encrypted_field.secret_path,
                                            encrypted_field.derivation_path)
        new_current_key == get_key_for_path(new_tenant_keys,
                                            encrypted_field.secret_path,
                                            encrypted_field.derivation_path,
                                            Current)
        encrypted == encrypt_internal(new_current_key.key.derived_key,
                                      create_key_id_header(original_key.tenant_secret_id),
                                      decrypted_field.val)
    IN  IF ~decrypted_field.ok THEN Err(NoField, decrypted_field.err, decrypted_field.calls)
        ELSE IF ~new_current_key.ok
        THEN Err(NoField, new_current_key.err, decrypted_field.calls)
        ELSE [encrypted EXCEPT !.calls = decrypted_field.calls \o encrypted.calls]

\* Lines 212-228: decrypt under the original key, encrypt under the new one.
reencrypt_with_keys(original_key, new_tenant_keys, ciphertext, encrypted_field) ==
    LET decrypted_field == decrypt_internal(original_key.derived_key,
                                            ciphertext,
                                            encrypted_field.secret_path,
                                            encrypted_field.derivation_path)
        new_current_key == get_key_for_path(new_tenant_keys,
                                            encrypted_field.secret_path,
                                            encrypted_field.derivation_path,
                                            Current)
        encrypted == encrypt_internal(new_current_key.key.derived_key,
                                      create_key_id_header(
                                          new_current_key.key.tenant_secret_id),
                                      decrypted_field.val)
    IN  IF ~decrypted_field.ok THEN Err(NoField, decrypted_field.err, decrypted_field.calls)
        ELSE IF ~new_current_key.ok
        THEN Err(NoField, new_current_key.err, decrypted_field.calls)
        ELSE [encrypted EXCEPT !.calls = decrypted_field.calls \o encrypted.calls]

\* Mutant: the no-op test is left out.
reencrypt_field_always(original_tenant_keys, new_tenant_keys, parsed_new_tenant_id, metadata, encrypted_field) ==
    LET header == decompose_key_id_header(encrypted_field.encrypted_field)
        original_key == get_key_for_path(original_tenant_keys,
                                         encrypted_field.secret_path,
                                         encrypted_field.derivation_path,
                                         Specific(header.key_id))
    IN  IF ~header.ok THEN Err(NoField, header.err, NoCalls)
        ELSE IF ~original_key.ok THEN Err(NoField, original_key.err, NoCalls)
        ELSE reencrypt_with_keys(original_key.key, new_tenant_keys,
                                 header.ciphertext, encrypted_field)

\* Lines 190-230: the closure applied to each field of the batch.
reencrypt_field(original_tenant_keys, new_tenant_keys, parsed_new_tenant_id, metadata, encrypted_field) ==
    LET header == decompose_key_id_header(encrypted_field.encrypted_field)
        current == get_current(new_tenant_keys,
                               encrypted_field.secret_path,
                               encrypted_field.derivation_path)
        maybe_current_key_id == [some |-> current.some, v |-> current.key.tenant_secret_id]
        original_key == get_key_for_path(original_tenant_keys,
                                         encrypted_field.secret_path,
                                         encrypted_field.derivation_path,
                                         Specific(header.key_id))
    IN  IF ~header.ok THEN Err(NoField, header.err, NoCalls)
        ELSE IF check_rotation_no_op(header.key_id, maybe_current_key_id,
                                     parsed_new_tenant_id, metadata)
        THEN Ok(encrypted_field, NoCalls)
        ELSE IF ~original_key.ok THEN Err(NoField, original_key.err, NoCalls)
        ELSE reencrypt_with_keys(original_key.key, new_tenant_keys,
                                 header.ciphertext, encrypted_field)

\* Every outcome lands in exactly one of the two maps.
collection_to_batch_result(outcomes) ==
    [successes |-> [f \in {g \in DOMAIN outcomes : outcomes[g].ok} |-> outcomes[f].val],
     failures |-> [f \in {g \in DOMAIN outcomes : ~outcomes[g].ok} |-> outcomes[f].err]]

NoRotation == [successes |-> << >>, failures |-> << >>]

\* Mutant: the batch is given up when one of its fields fails.
rotate_fields_aborting(tspS, encrypted_fields, metadata, new_tenant_id) ==
    LET parsed_new_tenant_id == IF new_tenant_id.some THEN new_tenant_id.v
                                ELSE metadata.tenant_id
        keys == get_keys_for_rotation(tspS, metadata, parsed_new_tenant_id,
                                      PathsOf(encrypted_fields))
        outcomes == [f \in DOMAIN encrypted_fields |->
                        reencrypt_field(keys.original_keys, keys.new_keys,
                                        parsed_new_tenant_id, metadata,
                                        encrypted_fields[f])]
    IN  IF ~keys.ok THEN Err(NoRotation, keys.err, << >>)
        ELSE IF \E f \in DOMAIN encrypted_fields : ~outcomes[f].ok
        THEN Err(NoRotation,
                 outcomes[CHOOSE f \in DOMAIN encrypted_fields : ~outcomes[f].ok].err,
                 << >>)
        ELSE Ok(collection_to_batch_result(outcomes),
                [f \in DOMAIN encrypted_fields |-> outcomes[f].calls])

rotate_fields(tspS, encrypted_fields, metadata, new_tenant_id) ==
    LET parsed_new_tenant_id == IF new_tenant_id.some THEN new_tenant_id.v
                                ELSE metadata.tenant_id
        keys == get_keys_for_rotation(tspS, metadata, parsed_new_tenant_id,
                                      PathsOf(encrypted_fields))
        outcomes == [f \in DOMAIN encrypted_fields |->
                        reencrypt_field(keys.original_keys, keys.new_keys,
                                        parsed_new_tenant_id, metadata,
                                        encrypted_fields[f])]
    IN  IF ~keys.ok THEN Err(NoRotation, keys.err, << >>)
        ELSE Ok(collection_to_batch_result(outcomes),
                [f \in DOMAIN encrypted_fields |-> outcomes[f].calls])

(* ------------------------- standard documents ------------------------- *)
FieldIds == {"f1", "f2"}
Deks == {"dek1", "dek2"}

\* A detached ciphertext records the DEK, the IV and the plaintext it was
\* made from; it opens only under the same DEK.
Sealed(dek, iv, plaintext) == [dek |-> dek, iv |-> iv, pt |-> plaintext]
GarbageCiphertext == Sealed("", 0, << >>)

\* The IV the generator hands out for a field; with none (0) the primitive
\* fails to encrypt.
encrypt_detached_document(iv, aes_dek, plaintext) ==
    IF iv = 0 THEN Err(GarbageCiphertext, "EncryptError", NoCalls)
    ELSE Ok(Sealed(aes_dek, iv, plaintext), NoCalls)

decrypt_detached_document(dek, ciphertext) ==
    IF ciphertext.dek = dek /\ ciphertext.iv # 0
    THEN Ok(ciphertext.pt, NoCalls)
    ELSE Err(<< >>, "DecryptError", NoCalls)

NoDocument == << >>
NoEncryptedDocument == [edek |-> << >>, document |-> NoDocument]
EncryptedDocument(edek, document) == [edek |-> edek, document |-> document]

\* Mutant: the fields whose decryption fails are left out of the result.
decrypt_document_core_lenient(document, dek) ==
    Ok([label \in {l \in DOMAIN document :
                      decrypt_detached_document(dek, document[l]).ok} |->
           decrypt_detached_document(dek, document[label]).val],
       NoCalls)

\* try_collect: the first field that fails makes the whole call fail.
encrypt_document_core(document, rng, aes_dek, key_id_header, v4_doc) ==
    LET encrypted(label) == encrypt_detached_document(rng[label], aes_dek, document[label])
    IN  IF \E label \in DOMAIN document : ~encrypted(label).ok
        THEN Err(NoEncryptedDocument,
                 encrypted(CHOOSE label \in DOMAIN document : ~encrypted(label).ok).err,
                 NoCalls)
        ELSE Ok(EncryptedDocument(
                    put_header_on_document(key_id_header, <<v4_doc>>),
                    [label \in DOMAIN document |-> encrypted(label).val]),
                NoCalls)

decrypt_document_core(document, dek) ==
    LET dec_result(label) == decrypt_detached_document(dek, document[label])
    IN  IF \E label \in DOMAIN document : ~dec_result(label).ok
        THEN Err(NoDocument,
                 dec_result(CHOOSE label \in DOMAIN document : ~dec_result(label).ok).err,
                 NoCalls)
        ELSE Ok([label \in DOMAIN document |-> dec_result(label).val], NoCalls)

(* ---------------------- the TSP's key lifecycle ------------------------ *)
Idle == [op |-> "idle"]

Demoted(keys) == [i \in 1..Len(keys) |-> Secret(keys[i].id, FALSE)]

RemoveAt(keys, i) == SubSeq(keys, 1, i - 1) \o SubSeq(keys, i + 1, Len(keys))

RECURSIVE SecretsOf(_)
SecretsOf(ts) ==
    IF ts = {} THEN 0
    ELSE LET t == CHOOSE x \in ts : TRUE
         IN  Len(tsp[t].keys) + SecretsOf(ts \ {t})

\* The number of secrets the TSP holds, over all tenants.
TotalSecrets == SecretsOf(Tenants)

\* A new secret is assigned to the tenant and becomes its current one.
TspAssignSecret(t, id, front) ==
    /\ last = Idle
    /\ tsp[t].up
    /\ TotalSecrets < MaxSecrets
    /\ \A i \in 1..Len(tsp[t].keys) : tsp[t].keys[i].id # id
    /\ tsp' = [tsp EXCEPT ![t].keys =
                  IF front THEN <<Secret(id, TRUE)>> \o Demoted(tsp[t].keys)
                  ELSE Demoted(tsp[t].keys) \o <<Secret(id, TRUE)>>]
    /\ UNCHANGED <<db, last>>

\* A secret is taken away from the tenant.
TspRetireSecret(t, i) ==
    /\ last = Idle
    /\ tsp[t].up
    /\ i \in 1..Len(tsp[t].keys)
    /\ tsp' = [tsp EXCEPT ![t].keys = RemoveAt(tsp[t].keys, i)]
    /\ UNCHANGED <<db, last>>

\* Secret i becomes the tenant's only current one; i = 0: none is current.
TspSetCurrent(t, i) ==
    /\ last = Idle
    /\ tsp[t].up
    /\ i \in 0..Len(tsp[t].keys)
    /\ tsp' = [tsp EXCEPT ![t].keys =
                  [j \in 1..Len(tsp[t].keys) |-> Secret(tsp[t].keys[j].id, j = i)]]
    /\ tsp' # tsp
    /\ UNCHANGED <<db, last>>

\* The TSP forgets the tenant, or comes to know it with no secrets yet.
TspEnrol(t) ==
    /\ last = Idle
    /\ tsp' = [tsp EXCEPT ![t] = IF tsp[t].up THEN Unknown ELSE Known(<< >>)]
    /\ UNCHANGED <<db, last>>

(* ---------------------------- the calls -------------------------------- *)
EmptyDb == [has |-> FALSE, field |-> NoField, tenant |-> "", pt |-> << >>,
            path |-> <<"", "">>, kid |-> 0, key |-> NoKeyBytes, tamper |-> "none"]

CallRecord(op, md, new, in, res) ==
    [op |-> op, md |-> md, new |-> new, in |-> in, res |-> res]

\* The id of the tenant's current secret, 0 when it has none.
CurrentId(t) ==
    LET i == CHOOSE j \in 0..Len(tsp[t].keys) :
                 \/ j # 0 /\ tsp[t].keys[j].current
                 \/ j = 0 /\ \A k \in 1..Len(tsp[t].keys) : ~tsp[t].keys[k].current
    IN  IF i = 0 THEN 0 ELSE tsp[t].keys[i].id

Encrypt(pt, path, t) ==
    /\ last = Idle
    /\ LET res == encrypt(tsp, PlaintextField(pt, path), Metadata(t))
       IN  /\ last' = CallRecord("encrypt", Metadata(t), NoTenant,
                                 PlaintextField(pt, path), res)
           /\ db' = IF res.ok
                    THEN [has |-> TRUE, field |-> res.val, tenant |-> t, pt |-> pt,
                          path |-> path, kid |-> CurrentId(t),
                          key |-> DeriveBytes(t, path, CurrentId(t)),
                          tamper |-> "none"]
                    ELSE db
    /\ UNCHANGED tsp

Decrypt(t) ==
    /\ last = Idle
    /\ db.has
    /\ last' = CallRecord("decrypt", Metadata(t), NoTenant, db.field,
                          decrypt(tsp, db.field, Metadata(t)))
    /\ UNCHANGED <<tsp, db>>

\* Lines 101-118 with a stubbed resolver, one that answers Specific(key_id)
\* with any key of the path's list.
DecryptStubbed(t, i) ==
    /\ last = Idle
    /\ db.has
    /\ LET header == decompose_key_id_header(db.field.encrypted_field)
           resp == tenant_key_derive(tsp, t, {db.path})
           keys == KeysForPath(resp.derived_keys, db.path[1], db.path[2])
       IN  /\ header.ok /\ resp.ok
           /\ i \in 1..Len(keys)
           /\ last' = CallRecord("decrypt_stubbed", Metadata(t), NoTenant,
                                 [field |-> db.field, resolved |-> keys[i]],
                                 decrypt_with_key(keys[i], header.key_id,
                                                  header.ciphertext, db.field))
    /\ UNCHANGED <<tsp, db>>

\* The stored bytes are changed behind the application's back.
TamperKeyId(k) ==
    /\ last = Idle
    /\ db.has /\ db.tamper = "none"
    /\ k \in 1..MaxKeyId /\ k # db.kid
    /\ db' = [db EXCEPT
                !.field.encrypted_field =
                    write_to_bytes(create_key_id_header(k))
                        \o SubSeq(@, HeaderLen + 1, Len(@)),
                !.tamper = "keyid"]
    /\ UNCHANGED <<tsp, last>>

TamperBody ==
    /\ last = Idle
    /\ db.has /\ db.tamper = "none"
    /\ db' = [db EXCEPT
                !.field.encrypted_field = SubSeq(@, 1, HeaderLen) \o <<GarbageBody>>,
                !.tamper = "body"]
    /\ UNCHANGED <<tsp, last>>

TamperHeader ==
    /\ last = Idle
    /\ db.has /\ db.tamper = "none"
    /\ db' = [db EXCEPT
                !.field.encrypted_field = SubSeq(@, 1, HeaderLen \div 2),
                !.tamper = "header"]
    /\ UNCHANGED <<tsp, last>>

QueryFields(pt, second) ==
    IF second = "none" THEN "f1" :> PlaintextField(pt, BarFoo)
    ELSE IF second = "same" THEN
        ("f1" :> PlaintextField(pt, BarFoo)) @@ ("f2" :> PlaintextField(<<1, 2, 3>>, BarFoo))
    ELSE ("f1" :> PlaintextField(pt, BarFoo)) @@ ("f2" :> PlaintextField(<< >>, QuxFoo))

Query(t, pt, second) ==
    /\ last = Idle
    /\ last' = CallRecord("query", Metadata(t), NoTenant, QueryFields(pt, second),
                          generate_query_field_values(tsp, QueryFields(pt, second),
                                                      Metadata(t)))
    /\ UNCHANGED <<tsp, db>>

\* A second field of the batch: one with a truncated header, or one made
\* together with the stored field, under the same key.
MalformedField == EncryptedField(<<0, 0, 0>>, BarFoo)
SiblingField ==
    encrypt_internal(db.key, create_key_id_header(db.kid),
                     PlaintextField(<<7>>, BarFoo)).val

RotateBatch(extra) ==
    IF extra = "none" THEN "f1" :> db.field
    ELSE IF extra = "malformed" THEN ("f1" :> db.field) @@ ("f2" :> MalformedField)
    ELSE ("f1" :> db.field) @@ ("f2" :> SiblingField)

Rotate(t, new, extra) ==
    /\ last = Idle
    /\ db.has
    /\ LET res == rotate_fields(tsp, RotateBatch(extra), Metadata(t), new)
           target == IF new.some THEN new.v ELSE t
       IN  /\ last' = CallRecord("rotate", Metadata(t), new, RotateBatch(extra), res)
           \* the application stores what the rotation returned for its field
           /\ db' = IF res.ok /\ "f1" \in DOMAIN res.val.successes
                       /\ res.val.successes["f1"] # db.field
                    THEN [db EXCEPT !.field = res.val.successes["f1"],
                                    !.tenant = target,
                                    !.kid = CurrentId(target),
                                    !.key = DeriveBytes(target, BarFoo, CurrentId(target))]
                    ELSE db
    /\ UNCHANGED tsp

\* Documents over some of the field ids, with values from a set.
DocumentsOver(values) == UNION {[ids -> values] : ids \in SUBSET FieldIds}

Ciphertexts ==
    {Sealed(dek, 1, pt) : dek \in Deks, pt \in Plaintexts} \cup {GarbageCiphertext}

EncryptDocument(document, rng, aes_dek, key_id) ==
    /\ last = Idle
    /\ last' = CallRecord("encrypt_document", Metadata(""), NoTenant,
                          [document |-> document, rng |-> rng, dek |-> aes_dek,
                           key_id |-> key_id],
                          encrypt_document_core(
                              document, rng, aes_dek,
                              KeyIdHeader("SaasShield", "StandardEdek", key_id),
                              "v4_doc"))
    /\ UNCHANGED <<tsp, db>>

DecryptDocument(document, dek) ==
    /\ last = Idle
    /\ last' = CallRecord("decrypt_document", Metadata(""), NoTenant,
                          [document |-> document, dek |-> dek],
                          decrypt_document_core(document, dek))
    /\ UNCHANGED <<tsp, db>>

\* The successes of the rotation that just returned are rotated again, for
\* the tenant they were rotated to, before the TSP changes anything.
RotateAgain ==
    /\ last.op = "rotate"
    /\ last.res.ok
    /\ LET target == IF last.new.some THEN last.new.v ELSE last.md.tenant_id
           batch == last.res.val.successes
       IN  last' = [op |-> "rotate_again", md |-> Metadata(target), new |-> NoTenant,
                    in |-> batch,
                    res |-> rotate_fields(tsp, batch, Metadata(target), NoTenant),
                    first |-> last]
    /\ UNCHANGED <<tsp, db>>

\* The call returns to the application.
Return ==
    /\ last # Idle
    /\ last' = Idle
    /\ UNCHANGED <<tsp, db>>

Init ==
    /\ tsp = [t \in Tenants |-> Known(<<Secret(1, TRUE)>>)]
    /\ db = EmptyDb
    /\ last = Idle

TspNext ==
    \/ \E t \in Tenants, id \in 1..MaxKeyId, front \in BOOLEAN : TspAssignSecret(t, id, front)
    \/ \E t \in Tenants, i \in 1..MaxKeyId : TspRetireSecret(t, i)
    \/ \E t \in Tenants, i \in 0..MaxKeyId : TspSetCurrent(t, i)
    \/ \E t \in Tenants : TspEnrol(t)

EncryptStep ==
    \E pt \in Plaintexts, path \in {BarFoo, QuxFoo}, t \in Tenants : Encrypt(pt, path, t)

DecryptStep == \E t \in Tenants : Decrypt(t)

TamperStep ==
    \/ \E k \in 1..MaxKeyId : TamperKeyId(k)
    \/ TamperBody
    \/ TamperHeader

QueryStep ==
    \E t \in Tenants, pt \in Plaintexts, second \in {"none", "same", "unknown"} :
        Query(t, pt, second)

RotateStep ==
    \E t \in Tenants, new \in {NoTenant} \cup {SomeTenant(n) : n \in Tenants},
       extra \in {"none", "malformed", "sibling"} : Rotate(t, new, extra)

\* Key ids of standard EDEKs: the small ones and one that fills all four
\* bytes, 0x01020304.
StandardKeyIds == (1..MaxKeyId) \cup {((1 * Byte + 2) * Byte + 3) * Byte + 4}

\* The call of the engine's test: one field, one DEK, any key id.
EdekStep ==
    \E key_id \in StandardKeyIds :
        EncryptDocument("f1" :> <<1, 2, 3>>, [l \in FieldIds |-> 1], "dek1", key_id)

AssignStep ==
    \E t \in Tenants, id \in 1..MaxKeyId, front \in BOOLEAN : TspAssignSecret(t, id, front)

EncryptDocumentStep ==
    \E document \in DocumentsOver(Plaintexts), rng \in [FieldIds -> 0..2],
       aes_dek \in Deks, key_id \in StandardKeyIds :
        EncryptDocument(document, rng, aes_dek, key_id)

DecryptDocumentStep ==
    \E document \in DocumentsOver(Ciphertexts), dek \in Deks :
        DecryptDocument(document, dek)

Next ==
    \/ TspNext
    \/ EncryptStep
    \/ DecryptStep
    \/ TamperStep
    \/ QueryStep
    \/ RotateStep
    \/ EncryptDocumentStep
    \/ DecryptDocumentStep
    \/ RotateAgain
    \/ Return

Spec == Init /\ [][Next]_vars

\* The same program with only the calls a group of properties is about.
CryptNext == TspNext \/ EncryptStep \/ DecryptStep \/ TamperStep \/ Return
SpecCrypt == Init /\ [][CryptNext]_vars

HeaderNext == TspNext \/ EncryptStep \/ QueryStep \/ RotateStep \/ Return
SpecHeader == Init /\ [][HeaderNext]_vars

RotateNext == TspNext \/ EncryptStep \/ TamperBody \/ RotateStep \/ Return
SpecRotate == Init /\ [][RotateNext]_vars

StubbedNext == CryptNext \/ \E t \in Tenants, i \in 1..MaxKeyId : DecryptStubbed(t, i)
SpecStubbed == Init /\ [][StubbedNext]_vars

StandardNext == EncryptDocumentStep \/ DecryptDocumentStep \/ Return
SpecStandard == Init /\ [][StandardNext]_vars

LayoutNext == AssignStep \/ EncryptStep \/ EdekStep \/ Return
SpecLayout == Init /\ [][LayoutNext]_vars

AgainNext == RotateNext \/ RotateAgain
SpecAgain == Init /\ [][AgainNext]_vars

QueryNext == TspNext \/ QueryStep \/ Return
SpecQuery == Init /\ [][QueryNext]_vars

(* ============================ properties =============================== *)
HeaderOf(encrypted_field) == decompose_key_id_header(encrypted_field.encrypted_field)

\* The derived keys the TSP returns now for tenant t and a path.
KeysNow(t, path) ==
    KeysForPath(tenant_key_derive(tsp, t, {path}).derived_keys, path[1], path[2])

KeyPresent(t, path, key) ==
    \E i \in 1..Len(KeysNow(t, path)) : KeysNow(t, path)[i].derived_key = key

\* C1: a field the application encrypted and stored untouched decrypts, for
\* the tenant it was encrypted for, to the plaintext, secret path and
\* derivation path that went in, whenever the key used to encrypt it is
\* still in the TSP response, whatever happened to the keys in between.
C1_RoundTrip ==
    (/\ last.op = "decrypt"
     /\ db.tamper = "none"
     /\ last.md.tenant_id = db.tenant
     /\ KeyPresent(db.tenant, db.path, db.key))
    => /\ last.res.ok
       /\ last.res.val = PlaintextField(db.pt, db.path)

C1_Witness ==
    /\ last.op = "decrypt"
    /\ db.tamper = "none"
    /\ last.md.tenant_id = db.tenant
    /\ KeyPresent(db.tenant, db.path, db.key)
    /\ db.pt = <<1, 2, 3>>
    /\ last.res.ok

\* The stored key is in the TSP response but no longer the current one,
\* and another key is.
Superseded ==
    /\ \E i \in 1..Len(KeysNow(db.tenant, db.path)) :
           /\ KeysNow(db.tenant, db.path)[i].derived_key = db.key
           /\ ~KeysNow(db.tenant, db.path)[i].current
    /\ \E i \in 1..Len(KeysNow(db.tenant, db.path)) :
           KeysNow(db.tenant, db.path)[i].current

\* C6: a field encrypted while key K was current still decrypts to the
\* original plaintext after the TSP has made another key current, as long
\* as K is in the response: the primitive is run with K's bytes, the key
\* the header names, not with the current key's.
C6_OldDataSurvives ==
    (/\ last.op = "decrypt"
     /\ db.tamper = "none"
     /\ last.md.tenant_id = db.tenant
     /\ Superseded)
    => /\ last.res.ok
       /\ last.res.val.plaintext_field = db.pt
       /\ last.res.calls = <<Call("decrypt_internal", db.key)>>

C6_Witness ==
    /\ last.op = "decrypt"
    /\ db.tamper = "none"
    /\ last.md.tenant_id = db.tenant
    /\ Superseded
    /\ db.kid = 1
    /\ last.res.ok

\* C7: when the key handed back for Specific(header key_id) carries another
\* tenant_secret_id than the header's, decrypt fails with InvalidKey and
\* the primitive is not run.
C7_MismatchGuard ==
    (/\ last.op = "decrypt_stubbed"
     /\ last.in.resolved.tenant_secret_id # HeaderOf(last.in.field).key_id)
    => /\ ~last.res.ok
       /\ last.res.err = "InvalidKey"
       /\ last.res.calls = NoCalls

C7_Witness ==
    /\ last.op = "decrypt_stubbed"
    /\ HeaderOf(last.in.field).key_id = 1
    /\ last.in.resolved.tenant_secret_id = 2
    /\ last.res.err = "InvalidKey"

\* The stored field's header key id was replaced by another id that the
\* TSP response holds for the same path, and it is decrypted for its tenant.
KeyIdSubstituted ==
    /\ last.op = "decrypt"
    /\ db.tamper = "keyid"
    /\ last.md.tenant_id = db.tenant
    /\ HeaderOf(db.field).ok
    /\ HeaderOf(db.field).key_id # db.kid
    /\ \E i \in 1..Len(KeysNow(db.tenant, db.path)) :
           KeysNow(db.tenant, db.path)[i].tenant_secret_id = HeaderOf(db.field).key_id

\* C8 as stated: the substitution makes decrypt fail with InvalidKey.
C8_SubstitutionInvalidKey ==
    KeyIdSubstituted => ~last.res.ok /\ last.res.err = "InvalidKey"

\* C8, amended: the substitution makes decrypt fail with DecryptError: the
\* resolver returns the key the new id names, the guard passes, and the
\* primitive rejects the body under that key.
C8_SubstitutionDecryptError ==
    KeyIdSubstituted
    => /\ ~last.res.ok
       /\ last.res.err = "DecryptError"
       /\ last.res.calls =
              <<Call("decrypt_internal",
                     DeriveBytes(db.tenant, db.path, HeaderOf(db.field).key_id))>>

C8_Witness ==
    /\ KeyIdSubstituted
    /\ db.kid = 1
    /\ HeaderOf(db.field).key_id = 2
    /\ ~last.res.ok

PathOf(field) == <<field.secret_path, field.derivation_path>>

\* The tenant a rotation call re-encrypts for.
TargetOf(call) == IF call.new.some THEN call.new.v ELSE call.md.tenant_id

\* The field's header names the key of tenant t whose bytes made its body.
Bound(field, t) ==
    LET h == HeaderOf(field)
        keys == KeysNow(t, PathOf(field))
    IN  /\ h.ok
        /\ Len(h.ciphertext) = 1
        /\ \E i \in 1..Len(keys) : keys[i].derived_key = h.ciphertext[1].key
        /\ \A i \in 1..Len(keys) :
               keys[i].derived_key = h.ciphertext[1].key
                   => keys[i].tenant_secret_id = h.key_id

\* C2: every EncryptedField the client produces, by encrypt, as an element
\* of a generate_query_field_values list, or by the re-encryption branch of
\* rotate_fields, carries in its header the tenant_secret_id of the
\* DerivedKey whose key bytes encrypted it.
C2_HeaderBinding ==
    /\ (last.op = "encrypt" /\ last.res.ok)
          => Bound(last.res.val, last.md.tenant_id)
    /\ (last.op = "query" /\ last.res.ok)
          => \A f \in DOMAIN last.res.val :
                \A i \in 1..Len(last.res.val[f]) :
                    Bound(last.res.val[f][i], last.md.tenant_id)
    /\ (last.op = "rotate" /\ last.res.ok)
          => \A f \in DOMAIN last.res.val.successes :
                last.res.calls[f] # NoCalls
                    => Bound(last.res.val.successes[f], TargetOf(last))

C2_Witness ==
    /\ last.op = "query"
    /\ last.res.ok
    /\ Len(last.res.val["f1"]) = 2
    /\ HeaderOf(last.res.val["f1"][1]).key_id = 2
    /\ HeaderOf(last.res.val["f1"][2]).key_id = 1

\* The id of the key that is current for the path in tenant t's response,
\* 0 when none is.
CurrentIdFor(t, path) ==
    IF FirstCurrent(KeysNow(t, path)) = 0 THEN 0
    ELSE KeysNow(t, path)[FirstCurrent(KeysNow(t, path))].tenant_secret_id

\* C3: every field rotate_fields reports in successes keeps the input's
\* secret path and derivation path, carries in its header the id of the
\* new tenant's current key for the path, and decrypts for the new tenant
\* to the plaintext the input decrypts to for the originating tenant.
C3_RotationCorrect ==
    (last.op = "rotate" /\ last.res.ok)
    => \A f \in DOMAIN last.res.val.successes :
          LET in == last.in[f]
              out == last.res.val.successes[f]
              before == decrypt(tsp, in, last.md)
              after == decrypt(tsp, out, Metadata(TargetOf(last)))
          IN  /\ PathOf(out) = PathOf(in)
              /\ HeaderOf(out).ok
              /\ HeaderOf(out).key_id = CurrentIdFor(TargetOf(last), PathOf(in))
              /\ after.ok = before.ok
              /\ before.ok => after.val = before.val

C3_Witness ==
    /\ last.op = "rotate"
    /\ last.res.ok
    /\ TargetOf(last) # last.md.tenant_id
    /\ "f1" \in DOMAIN last.res.val.successes
    /\ HeaderOf(last.in["f1"]).key_id # HeaderOf(last.res.val.successes["f1"]).key_id
    /\ decrypt(tsp, last.res.val.successes["f1"], Metadata(TargetOf(last))).val
           = PlaintextField(<<1, 2, 3>>, BarFoo)

\* The rotation targets the originating tenant and the field's header
\* already names that tenant's current key for the field's path.
NoOpCase(call, f) ==
    /\ HeaderOf(call.in[f]).ok
    /\ TargetOf(call) = call.md.tenant_id
    /\ CurrentIdFor(call.md.tenant_id, PathOf(call.in[f])) # 0
    /\ CurrentIdFor(call.md.tenant_id, PathOf(call.in[f])) = HeaderOf(call.in[f]).key_id

\* C4: in the no-op case the field is returned in successes byte-for-byte
\* equal to the input and the primitive is run neither to decrypt nor to
\* encrypt it, so it succeeds even with a body that would not decrypt.
C4_RotationNoOp ==
    last.op = "rotate"
    => \A f \in DOMAIN last.in :
          NoOpCase(last, f)
          => /\ last.res.ok
             /\ f \in DOMAIN last.res.val.successes
             /\ last.res.val.successes[f] = last.in[f]
             /\ last.res.calls[f] = NoCalls

C4_Witness ==
    /\ last.op = "rotate"
    /\ NoOpCase(last, "f1")
    /\ db.tamper = "body"
    /\ ~decrypt(tsp, last.in["f1"], last.md).ok
    /\ last.res.val.successes["f1"] = last.in["f1"]

\* The keys of the batch could be fetched from the TSP.
KeysFetched(call) ==
    get_keys_for_rotation(tsp, call.md, TargetOf(call), PathsOf(call.in)).ok

\* The part of a rotation result that is about field f.
OutcomeOf(res, f) ==
    [success |-> f \in DOMAIN res.val.successes,
     failure |-> f \in DOMAIN res.val.failures,
     field |-> IF f \in DOMAIN res.val.successes THEN res.val.successes[f] ELSE NoField,
     err |-> IF f \in DOMAIN res.val.failures THEN res.val.failures[f] ELSE ""]

\* C5: once the keys of the batch were fetched, rotate_fields returns Ok,
\* every input field id is in exactly one of successes and failures, and
\* each field's outcome is the one it has when rotated alone, whatever
\* happens to the other fields of the batch.
C5_BatchSemantics ==
    (last.op = "rotate" /\ KeysFetched(last))
    => /\ last.res.ok
       /\ DOMAIN last.res.val.successes \cup DOMAIN last.res.val.failures
              = DOMAIN last.in
       /\ DOMAIN last.res.val.successes \cap DOMAIN last.res.val.failures = {}
       /\ \A f \in DOMAIN last.in :
              LET alone == rotate_fields(tsp, f :> last.in[f], last.md, last.new)
              IN  /\ alone.ok
                  /\ OutcomeOf(last.res, f) = OutcomeOf(alone, f)

C5_Witness ==
    /\ last.op = "rotate"
    /\ KeysFetched(last)
    /\ last.res.ok
    /\ "f1" \in DOMAIN last.res.val.failures
    /\ "f2" \in DOMAIN last.res.val.successes
    /\ last.res.calls["f2"] # NoCalls

\* The TSP's secrets of tenant t with the i-th made the current one.
WithCurrent(t, i) ==
    [tsp EXCEPT ![t].keys = [j \in 1..Len(tsp[t].keys) |->
                                Secret(tsp[t].keys[j].id, j = i)]]

InRotation(keys) == {i \in 1..Len(keys) : ~keys[i].current}

\* Each list of a query result has one element per DerivedKey of the
\* field's path, in the response order, each the field encrypt returns
\* when that key is the current one.
OnePerKey ==
    \A f \in DOMAIN last.res.val :
        LET keys == KeysNow(last.md.tenant_id, PathOf(last.in[f]))
        IN  /\ Len(last.res.val[f]) = Len(keys)
            /\ \A i \in 1..Len(keys) :
                   /\ encrypt(WithCurrent(last.md.tenant_id, i), last.in[f], last.md).ok
                   /\ last.res.val[f][i] =
                          encrypt(WithCurrent(last.md.tenant_id, i), last.in[f], last.md).val

\* C9 as stated: each list has exactly 1 + |InRotation| elements, one per
\* DerivedKey, in the response order, each what encrypt produces.
C9_QueryCoverageStated ==
    (last.op = "query" /\ last.res.ok)
    => /\ OnePerKey
       /\ \A f \in DOMAIN last.res.val :
              Len(last.res.val[f]) =
                  1 + Cardinality(InRotation(KeysNow(last.md.tenant_id,
                                                     PathOf(last.in[f]))))

\* C9, amended: each list has one element per DerivedKey of the path, in
\* the response order, each what encrypt produces under that key; that is
\* 1 + |InRotation| elements when the path has a current key and
\* |InRotation| elements when it has none.
C9_QueryCoverage ==
    (last.op = "query" /\ last.res.ok)
    => /\ OnePerKey
       /\ \A f \in DOMAIN last.res.val :
              LET keys == KeysNow(last.md.tenant_id, PathOf(last.in[f]))
              IN  Len(last.res.val[f]) =
                      (IF FirstCurrent(keys) = 0 THEN 0 ELSE 1)
                          + Cardinality(InRotation(keys))

C9_Witness ==
    /\ last.op = "query"
    /\ last.res.ok
    /\ CurrentIdFor(last.md.tenant_id, BarFoo) = 0
    /\ Len(last.res.val["f1"]) = 2
    /\ last.in["f1"].plaintext_field = <<1, 2, 3>>

\* Some field of the query has a path the response holds no key list for.
PathMissing(call) ==
    \E f \in DOMAIN call.in :
        PathOf(call.in[f]) \notin
            DOMAIN tenant_key_derive(tsp, call.md.tenant_id, PathsOf(call.in)).derived_keys

FieldFails(call) ==
    \/ /\ call.op = "encrypt_document"
       /\ \E l \in DOMAIN call.in.document :
              ~encrypt_detached_document(call.in.rng[l], call.in.dek,
                                         call.in.document[l]).ok
    \/ /\ call.op = "decrypt_document"
       /\ \E l \in DOMAIN call.in.document :
              ~decrypt_detached_document(call.in.dek, call.in.document[l]).ok

\* The document a call of the standard engine returned.
DocumentOf(call) ==
    IF call.op = "encrypt_document" THEN call.res.val.document ELSE call.res.val

\* C11: encrypt_document_core and decrypt_document_core return either a
\* document with exactly the field ids of the input, or, when any single
\* field fails, an error and no document; never a part of the document.
C11_AllOrNothing ==
    last.op \in {"encrypt_document", "decrypt_document"}
    => /\ last.res.ok = ~FieldFails(last)
       /\ last.res.ok => DOMAIN DocumentOf(last) = DOMAIN last.in.document
       /\ ~last.res.ok => DocumentOf(last) = NoDocument

C11_Witness ==
    /\ last.op = "decrypt_document"
    /\ DOMAIN last.in.document = FieldIds
    /\ decrypt_detached_document(last.in.dek, last.in.document["f1"]).ok
    /\ ~decrypt_detached_document(last.in.dek, last.in.document["f2"]).ok
    /\ ~last.res.ok

\* The key id read from the first four bytes, most significant first.
BigEndianKeyId(bytes) ==
    ((bytes[1] * 256 + bytes[2]) * 256 + bytes[3]) * 256 + bytes[4]

\* The stored deterministic field and the EDEK just returned, both made
\* by the SaaS Shield engines.
BothHeaders ==
    /\ db.has
    /\ last.op = "encrypt_document"
    /\ last.res.ok

\* C12 as stated: the fifth byte encodes the edek_type alone and the sixth
\* the payload_type alone, so the SaasShield EDEK header and the SaasShield
\* deterministic header agree on the fifth byte.
C12_LayoutStated ==
    BothHeaders
    => /\ Len(last.res.val.edek) >= HeaderLen
       /\ last.res.val.edek[5] = db.field.encrypted_field[5]

\* C12, amended: the six header bytes are the key id as a big-endian u32,
\* one byte that carries the edek_type and the payload_type together (0
\* for a SaasShield deterministic field, 2 for a SaasShield standard EDEK)
\* and one zero byte; for key id 1 they are the bytes the tests expect,
\* [0,0,0,1,2,0] and [0,0,0,1,0,0].
C12_HeaderLayout ==
    /\ db.has
          => /\ Len(db.field.encrypted_field) = HeaderLen + 1
             /\ BigEndianKeyId(db.field.encrypted_field) = db.kid
             /\ \A i \in 1..4 : db.field.encrypted_field[i] \in 0..255
             /\ SubSeq(db.field.encrypted_field, 5, 6) = <<0, 0>>
             /\ db.kid = 1 => SubSeq(db.field.encrypted_field, 1, HeaderLen)
                                  = test_deterministic_encrypt_current
    /\ (last.op = "encrypt_document" /\ last.res.ok)
          => /\ Len(last.res.val.edek) = HeaderLen + 1
             /\ BigEndianKeyId(last.res.val.edek) = last.in.key_id
             /\ \A i \in 1..4 : last.res.val.edek[i] \in 0..255
             /\ SubSeq(last.res.val.edek, 5, 6) = <<2, 0>>
             /\ last.in.key_id = 1 => SubSeq(last.res.val.edek, 1, HeaderLen)
                                          = encrypt_document_core_works

C12_Witness ==
    /\ BothHeaders
    /\ db.kid = 2
    /\ SubSeq(db.field.encrypted_field, 1, HeaderLen) = <<0, 0, 0, 2, 0, 0>>
    /\ SubSeq(last.res.val.edek, 1, HeaderLen) = <<1, 2, 3, 4, 2, 0>>

\* C13: for a fixed TSP key state, rotating the successes of a rotation
\* again, with metadata naming the first call's target tenant and no
\* new_tenant_id, takes the no-op branch for every field: each is returned
\* byte-for-byte unchanged, with no primitive call, and no field fails.
C13_RotationIdempotent ==
    last.op = "rotate_again"
    => /\ last.res.ok
       /\ last.res.val.successes = last.in
       /\ DOMAIN last.res.val.failures = {}
       /\ \A f \in DOMAIN last.in : last.res.calls[f] = NoCalls

C13_Witness ==
    /\ last.op = "rotate_again"
    /\ DOMAIN last.in = {"f1", "f2"}
    /\ last.first.md.tenant_id # last.md.tenant_id
    /\ last.first.res.calls["f1"] # NoCalls
    /\ HeaderOf(last.first.in["f1"]).key_id # HeaderOf(last.in["f1"]).key_id
    /\ last.res.val.successes = last.in

====
